---- MODULE Spec2Model ----
(***************************************************************************)
(* Docuscribe MCP adapter (src/main.py): the two tools list_all_docs and   *)
(* fetch_doc_content as coroutines that suspend at their HTTP GETs, run     *)
(* against a backend whose behaviour is fixed for the whole behaviour.      *)
(*                                                                         *)
(* JSON values are records [t, v]: t is the JSON type ("object", "array",  *)
(* "str", "int", "bool", "null"), v the payload (an object's v is a        *)
(* function from keys to JSON values, an array's v a sequence).  A Python  *)
(* Optional argument is a sequence: <<>> for None, <<x>> for the value x.  *)
(***************************************************************************)
EXTENDS Integers, Sequences, FiniteSets, TLC

VARIABLES backend, pc, args, sent, open, outcome

vars == <<backend, pc, args, sent, open, outcome>>

(* ------------------------------ bounds ------------------------------- *)

\* number of invocation slots that may be in flight together
MaxCalls == 2
\* size of the largest backend catalog (one more than the validation limit)
BigCatalog == 1001
\* size of the ordinary backend catalog
SmallCatalog == 3

Calls == 1..MaxCalls

(* ------------------------- program constants ------------------------- *)

DefaultLimit == 100
DefaultOffset == 0
LimitFloor == 1
LimitCap == 1000
OffsetFloor == 0
ValidateLimit == 1000
ValidateOffset == 0
DefaultStart == 0
StartFloor == 0
DefaultMaxLength == 10000
MaxLengthFloor == 1
MaxLengthCap == 50000
HTTP_OK == 200

LIST_DOCS_URL == "http://localhost:9002/api/list_all_docs"
BASE_FETCH_URL == "http://localhost:9002/api/fetch_doc_content"

(* ---------------------------- JSON values ---------------------------- *)

JObj(f) == [t |-> "object", v |-> f]
JArr(s) == [t |-> "array", v |-> s]
JStr(s) == [t |-> "str", v |-> s]
JInt(i) == [t |-> "int", v |-> i]
JBool(b) == [t |-> "bool", v |-> b]
EmptyObj == JObj([k \in {} |-> 0])

\* equality of two JSON values of possibly different type
JEq(a, b) == a.t = b.t /\ a.v = b.v

\* d[k] = val on a dict
Put(f, k, val) == [x \in DOMAIN f \cup {k} |-> IF x = k THEN val ELSE f[x]]

\* d.get(k, default) on a dict
Get(f, k, default) == IF k \in DOMAIN f THEN f[k] ELSE default

\* json.dumps: the text of a JSON value; json.loads: the value of a text
json_dumps(j) == [text |-> j]
json_loads(s) == s.text

\* an Optional argument
None == <<>>
Some(x) == <<x>>
IsNone(o) == o = <<>>
Val(o) == o[1]

\* what a coroutine ends with
Return(text) == [kind |-> "return", value |-> text]
Raise(exc) == [kind |-> "raise", value |-> json_dumps(JStr(exc))]
Pending == [kind |-> "pending", value |-> json_dumps(JStr(""))]

(* ------------------------- requests, responses ----------------------- *)

\* one GET: the URL the code builds, and the parts of it the backend reads
Request(endpoint, url, uid, limit, offset, start, max_length, ranges) ==
    [endpoint |-> endpoint, url |-> url, doc_uid |-> uid,
     limit |-> limit, offset |-> offset,
     start |-> start, max_length |-> max_length, ranges |-> ranges]

\* what client.get gives: a transport fault (httpx raises), or a status and a
\* body that resp.json() decodes to data or fails on (ValueError)
Response(fault, status, decodable, data) ==
    [fault |-> fault, status |-> status, decodable |-> decodable, data |-> data]

(* ------------------------------ backend ------------------------------ *)

DocId(i) == "d" \o ToString(i)

Doc(i) == JObj([id |-> JStr(DocId(i)), name |-> JStr("Title")])

Min(a, b) == IF a < b THEN a ELSE b
Max(a, b) == IF a > b THEN a ELSE b

\* the documents offset+1 .. offset+limit of a catalog of n documents
Page(n, limit, offset) ==
    [i \in 1..Max(0, Min(limit, n - offset)) |-> Doc(offset + i)]

ListModes ==
    {"ok", "neterror", "http500", "http404", "http201", "undecodable",
     "top_array", "docs_absent", "docs_not_list", "docs_junk_first",
     "docs_junk_last", "docs_without_id"}

ContentModes ==
    {"ok", "neterror", "http500", "http404", "http206", "undecodable",
     "top_array", "last_page", "meta_extra", "meta_absent", "document_absent",
     "meta_not_object", "meta_array", "meta_array_has_more"}

ModeStatus(mode) ==
    CASE mode = "http500" -> 500
      [] mode = "http404" -> 404
      [] mode = "http201" -> 201
      [] mode = "http206" -> 206
      [] OTHER -> 200

\* GET /api/list_all_docs?limit=..&offset=..
ListRespond(b, req) ==
    LET page == Page(b.ncat, Val(req.limit), Val(req.offset))
        junk == JStr("junk")
        data == CASE b.listMode = "top_array" -> JArr(page)
                  [] b.listMode = "docs_absent" ->
                        JObj([total |-> JInt(b.ncat)])
                  [] b.listMode = "docs_not_list" ->
                        JObj([documents |-> JInt(b.ncat)])
                  [] b.listMode = "docs_junk_first" ->
                        JObj([documents |-> JArr(<<junk>> \o page)])
                  [] b.listMode = "docs_junk_last" ->
                        JObj([documents |-> JArr(page \o <<junk>>)])
                  [] b.listMode = "docs_without_id" ->
                        JObj([documents |->
                                JArr([i \in DOMAIN page |->
                                        JObj([name |-> JStr("Title")])])])
                  [] OTHER -> JObj([documents |-> JArr(page)])
    IN  Response(b.listMode = "neterror", ModeStatus(b.listMode),
                 b.listMode # "undecodable", data)

Exists(b, uid) == \E i \in 1..b.ncat : DocId(i) = uid

\* GET /api/fetch_doc_content/<doc_uid>[?start=..&max_length=..|?ranges=..]
ContentRespond(b, req) ==
    LET mode == IF ~IsNone(req.ranges) THEN "multi"
                ELSE IF ~IsNone(req.start) THEN "single" ELSE "index"
        next == IF mode = "single"
                THEN Val(req.start) + Val(req.max_length) ELSE 0
        document == JObj([id |-> JStr(req.doc_uid), mode |-> JStr(mode)])
        full == JObj([has_more |-> JBool(TRUE), next_start |-> JInt(next)])
        body(m) == JObj([document |-> document, meta |-> m])
        data == CASE b.contentMode = "top_array" -> JArr(<<document>>)
                  [] b.contentMode = "last_page" ->
                        body(JObj([has_more |-> JBool(FALSE)]))
                  [] b.contentMode = "meta_extra" ->
                        body(JObj([next_start |-> JInt(next),
                                   total |-> JInt(next)]))
                  [] b.contentMode = "meta_absent" ->
                        JObj([document |-> document])
                  [] b.contentMode = "document_absent" ->
                        JObj([meta |-> full])
                  [] b.contentMode = "meta_not_object" -> body(JInt(next))
                  [] b.contentMode = "meta_array" -> body(JArr(<<JInt(next)>>))
                  [] b.contentMode = "meta_array_has_more" ->
                        body(JArr(<<JInt(next), JStr("has_more")>>))
                  [] OTHER -> body(full)
        status == IF Exists(b, req.doc_uid)
                  THEN ModeStatus(b.contentMode) ELSE 404
    IN  Response(b.contentMode = "neterror", status,
                 b.contentMode # "undecodable", data)

Respond(b, req) ==
    IF req.endpoint = "list" THEN ListRespond(b, req) ELSE ContentRespond(b, req)

(* --------------------------- list_all_docs --------------------------- *)

\* mutant: the upper clamp of line 67 left out
ClampLimitNoCap(limit) == IF limit < LimitFloor THEN LimitFloor ELSE limit

ClampLimit(limit) ==
    LET l1 == IF limit < LimitFloor THEN LimitFloor ELSE limit
    IN  IF l1 > LimitCap THEN LimitCap ELSE l1

ClampOffset(offset) == IF offset < OffsetFloor THEN OffsetFloor ELSE offset

ListUrl(limit, offset) ==
    LIST_DOCS_URL \o "?limit=" \o ToString(limit)
                  \o "&offset=" \o ToString(offset)

\* lines 64-74: normalize, build the URL, issue the GET
ListRequest(limit, offset) ==
    LET l == ClampLimit(limit)
        o == ClampOffset(offset)
    IN  Request("list", ListUrl(l, o), "", Some(l), Some(o), None, None, None)

\* lines 74-89: what list_all_docs ends with once the GET has resolved;
\* req carries the normalized limit and offset
ListFinish(resp, req) ==
    IF resp.fault THEN Raise("httpx.RequestError")
    ELSE IF resp.status # HTTP_OK
    THEN Return(json_dumps(JObj([error |-> JStr("list_all_docs failed"),
                                 status |-> JInt(resp.status)])))
    ELSE IF ~resp.decodable
    THEN Return(json_dumps(
             JObj([error |-> JStr("Failed to decode JSON from list_all_docs")])))
    ELSE IF resp.data.t # "object" THEN Raise("TypeError")
    ELSE Return(json_dumps(
             JObj(Put(resp.data.v, "_request",
                      JObj([limit |-> JInt(Val(req.limit)),
                            offset |-> JInt(Val(req.offset))])))))

(* ------------------------- fetch_doc_content ------------------------- *)

JNull == [t |-> "null", v |-> 0]

\* lines 158-162: the documents the listing text yields; any failure to
\* parse or to read the key gives the empty list
ParseDocuments(docs_raw) ==
    LET docs_data == json_loads(docs_raw)
    IN  IF docs_data.t # "object" THEN JArr(<<>>)
        ELSE Get(docs_data.v, "documents", JArr(<<>>))

\* line 163: any(d.get("id") == doc_uid for d in documents), evaluated
\* left to right: "true", "false", or the exception the scan raises
AnyIdMatches(documents, doc_uid) ==
    IF documents.t = "array"
    THEN LET items == documents.v
             stops == {i \in DOMAIN items :
                         \/ items[i].t # "object"
                         \/ JEq(Get(items[i].v, "id", JNull), JStr(doc_uid))}
         IN  IF stops = {} THEN "false"
             ELSE LET first == CHOOSE i \in stops : \A j \in stops : i <= j
                  IN  IF items[first].t = "object" THEN "true"
                      ELSE "AttributeError"
    ELSE IF documents.t = "object"
    THEN IF DOMAIN documents.v = {} THEN "false" ELSE "AttributeError"
    ELSE IF documents.t = "str"
    THEN IF documents.v = "" THEN "false" ELSE "AttributeError"
    ELSE "TypeError"

\* f"{a}&{b}..." : "&".join(params)
RECURSIVE JoinAmp(_)
JoinAmp(params) ==
    IF Len(params) = 0 THEN ""
    ELSE IF Len(params) = 1 THEN params[1]
    ELSE params[1] \o "&" \o JoinAmp(Tail(params))

\* line 170: the truth value of an Optional[str]
Truthy(ranges) == ~IsNone(ranges) /\ Val(ranges) # ""

\* lines 176-179
ClampStart(start) ==
    LET s0 == IF IsNone(start) THEN DefaultStart ELSE Val(start)
    IN  IF s0 < StartFloor THEN StartFloor ELSE s0

\* mutant: max_length clamped only when the caller supplied it
ClampMaxLengthSuppliedOnly(max_length) ==
    IF IsNone(max_length) THEN DefaultMaxLength
    ELSE IF Val(max_length) < MaxLengthFloor THEN MaxLengthFloor
    ELSE Val(max_length)

\* lines 180-185
ClampMaxLength(max_length) ==
    LET m0 == IF IsNone(max_length) THEN DefaultMaxLength ELSE Val(max_length)
        m1 == IF m0 < MaxLengthFloor THEN MaxLengthFloor ELSE m0
    IN  IF m1 > MaxLengthCap THEN MaxLengthCap ELSE m1

\* lines 168-191: mode selection and the content request
ContentRequest(doc_uid, start, max_length, ranges) ==
    LET multi == Truthy(ranges)
        single == ~multi /\ (~IsNone(start) \/ ~IsNone(max_length))
        s == ClampStart(start)
        m == ClampMaxLength(max_length)
        params == IF multi THEN <<"ranges=" \o Val(ranges)>>
                  ELSE IF single
                  THEN <<"start=" \o ToString(s),
                         "max_length=" \o ToString(m)>>
                  ELSE <<>>
        query == IF Len(params) > 0 THEN "?" \o JoinAmp(params) ELSE ""
        url == BASE_FETCH_URL \o "/" \o doc_uid \o query
    IN  Request("content", url, doc_uid, None, None,
                IF single THEN Some(s) ELSE None,
                IF single THEN Some(m) ELSE None,
                IF multi THEN ranges ELSE None)

NotFound(doc_uid) ==
    Return(json_dumps(
        JObj([error |-> JStr("Document '" \o doc_uid \o "' not found")])))

\* mutant: validation that fails open, going on to the content endpoint
\* whenever the scan of the listing did not raise
ValidateFailOpen(listed, doc_uid) ==
    IF listed.kind = "raise" THEN listed
    ELSE LET found == AnyIdMatches(ParseDocuments(listed.value), doc_uid)
         IN  IF found \in {"true", "false"}
             THEN [kind |-> "proceed", value |-> listed.value]
             ELSE Raise(found)

\* lines 157-166: what validation decides from the outcome of the inner
\* list_all_docs call: "proceed", or the outcome fetch_doc_content ends with
Validate(listed, doc_uid) ==
    IF listed.kind = "raise" THEN listed
    ELSE LET found == AnyIdMatches(ParseDocuments(listed.value), doc_uid)
         IN  IF found = "true" THEN [kind |-> "proceed", value |-> listed.value]
             ELSE IF found = "false" THEN NotFound(doc_uid)
             ELSE Raise(found)

\* "k" in meta: a key test on a dict, an element test on a list, TypeError
\* on an int, a bool or null (a str meta, where `in` is a substring test, is
\* not among the bodies the backend here produces)
Contains(meta, k) ==
    IF meta.t = "object" THEN (IF k \in DOMAIN meta.v THEN "true" ELSE "false")
    ELSE IF meta.t = "array"
    THEN (IF \E i \in DOMAIN meta.v : JEq(meta.v[i], JStr(k))
          THEN "true" ELSE "false")
    ELSE "TypeError"

\* mutant: has_more and next_start always emitted, null when meta lacks them
ReshapeWithNulls(data) ==
    IF data.t # "object" THEN Raise("AttributeError")
    ELSE LET document == Get(data.v, "document", EmptyObj)
             meta == Get(data.v, "meta", EmptyObj)
         IN  IF meta.t # "object" THEN Raise("AttributeError")
             ELSE Return(json_dumps(JObj(
                      [document |-> document, meta |-> meta,
                       has_more |-> Get(meta.v, "has_more", JNull),
                       next_start |-> Get(meta.v, "next_start", JNull)])))

\* lines 208-221: the reshaped result of a decoded content body
Reshape(data) ==
    IF data.t # "object" THEN Raise("AttributeError")
    ELSE LET document == Get(data.v, "document", EmptyObj)
             meta == Get(data.v, "meta", EmptyObj)
             result == [document |-> document, meta |-> meta]
             hm == Contains(meta, "has_more")
             ns == Contains(meta, "next_start")
         IN  IF hm = "TypeError" THEN Raise("TypeError")
             ELSE IF hm = "true" /\ meta.t # "object" THEN Raise("AttributeError")
             ELSE IF ns = "true" /\ meta.t # "object" THEN Raise("AttributeError")
             ELSE LET r1 == IF hm = "true"
                            THEN Put(result, "has_more", meta.v["has_more"])
                            ELSE result
                      r2 == IF ns = "true"
                            THEN Put(r1, "next_start", meta.v["next_start"])
                            ELSE r1
                  IN  Return(json_dumps(JObj(r2)))

\* lines 193-221: what fetch_doc_content ends with once the content GET has
\* resolved
ContentFinish(resp) ==
    IF resp.fault THEN Raise("httpx.RequestError")
    ELSE IF resp.status # HTTP_OK
    THEN Return(json_dumps(JObj([error |-> JStr("fetch_doc_content failed"),
                                 status |-> JInt(resp.status)])))
    ELSE IF ~resp.decodable
    THEN Return(json_dumps(
             JObj([error |-> JStr("Failed to decode JSON from fetch_doc_content")])))
    ELSE Reshape(resp.data)

(* --------------------------- state machine --------------------------- *)

Default(o, d) == IF IsNone(o) THEN d ELSE Val(o)

NoArgs ==
    [tool |-> "none", doc_uid |-> "", limit |-> None, offset |-> None,
     start |-> None, max_length |-> None, ranges |-> None]

ListArgs(limit, offset) ==
    [NoArgs EXCEPT !.tool = "list", !.limit = limit, !.offset = offset]

FetchArgs(doc_uid, start, max_length, ranges) ==
    [NoArgs EXCEPT !.tool = "fetch", !.doc_uid = doc_uid, !.start = start,
                   !.max_length = max_length, !.ranges = ranges]

\* a backend: the size of its catalog and how its two endpoints behave
Backend(ncat, listMode, contentMode) ==
    [ncat |-> ncat, listMode |-> listMode, contentMode |-> contentMode]

Backends ==
    {Backend(SmallCatalog, l, c) : l \in ListModes, c \in ContentModes}
    \cup {Backend(0, l, "ok") : l \in ListModes}
    \cup {Backend(BigCatalog, l, c) : l \in {"ok", "docs_junk_last"},
                                       c \in {"ok", "http500"}}

ConcBackends ==
    {Backend(SmallCatalog, l, c) : l \in {"ok", "http500"},
                                   c \in {"ok", "last_page"}}

Idle ==
    /\ pc = [c \in Calls |-> "idle"]
    /\ args = [c \in Calls |-> NoArgs]
    /\ sent = [c \in Calls |-> <<>>]
    /\ open = [c \in Calls |-> {}]
    /\ outcome = [c \in Calls |-> Pending]

Init == backend \in Backends /\ Idle

ConcInit == backend \in ConcBackends /\ Idle

\* `async with httpx.AsyncClient() as client` entered (lines 73, 193)
Acquire(clients, name) == clients \cup {name}

\* mutant: the client closed by a call at the end of the block instead of by
\* `async with`, so an exception leaves it open
ReleaseUnlessRaised(clients, name, out) ==
    IF out.kind = "raise" THEN clients ELSE clients \ {name}

\* the same block left, by return or by exception, with outcome out
ReleaseOnExit(clients, name, out) == clients \ {name}

\* mutant: the request kept in a module-level variable that every invocation
\* overwrites: a resumed call gets the answer to the request of the
\* highest-numbered call that has one outstanding
ResolvedShared(c) ==
    LET waiting == {d \in Calls : pc[d] \in {"list_await", "validate_await",
                                             "content_await"}}
        d == CHOOSE x \in waiting : \A y \in waiting : y <= x
    IN  Respond(backend, sent[d][Len(sent[d])])

\* `resp = await client.get(url)` (lines 74, 194): the response call c
\* resumes with is the backend's answer to the request c itself issued last
Resolved(c) == Respond(backend, sent[c][Len(sent[c])])

Ended(out) == IF out.kind = "raise" THEN "raised" ELSE "returned"

\* the protocol layer calls list_all_docs(limit, offset): lines 64-74
InvokeList(c, limit, offset) ==
    /\ pc[c] = "idle"
    /\ args' = [args EXCEPT ![c] = ListArgs(limit, offset)]
    /\ sent' = [sent EXCEPT ![c] =
                  <<ListRequest(Default(limit, DefaultLimit),
                                Default(offset, DefaultOffset))>>]
    /\ open' = [open EXCEPT ![c] = Acquire(@, "list")]
    /\ pc' = [pc EXCEPT ![c] = "list_await"]
    /\ UNCHANGED <<backend, outcome>>

\* the listing GET of a list_all_docs call resolves: lines 74-89
ListResume(c) ==
    /\ pc[c] = "list_await"
    /\ LET out == ListFinish(Resolved(c), sent[c][1])
       IN  /\ outcome' = [outcome EXCEPT ![c] = out]
           /\ open' = [open EXCEPT ![c] = ReleaseOnExit(@, "list", out)]
           /\ pc' = [pc EXCEPT ![c] = Ended(out)]
    /\ UNCHANGED <<backend, args, sent>>

\* the protocol layer calls fetch_doc_content: line 157 enters
\* list_all_docs(limit=1000, offset=0) up to its GET
InvokeFetch(c, doc_uid, start, max_length, ranges) ==
    /\ pc[c] = "idle"
    /\ args' = [args EXCEPT ![c] = FetchArgs(doc_uid, start, max_length, ranges)]
    /\ sent' = [sent EXCEPT ![c] = <<ListRequest(ValidateLimit, ValidateOffset)>>]
    /\ open' = [open EXCEPT ![c] = Acquire(@, "list")]
    /\ pc' = [pc EXCEPT ![c] = "validate_await"]
    /\ UNCHANGED <<backend, outcome>>

\* the validation listing resolves: the inner list_all_docs finishes (lines
\* 74-89), then lines 158-194 run up to the content GET or to the exit
FetchValidated(c) ==
    /\ pc[c] = "validate_await"
    /\ LET listed == ListFinish(Resolved(c), sent[c][1])
           v == Validate(listed, args[c].doc_uid)
           released == ReleaseOnExit(open[c], "list", listed)
       IN  IF v.kind = "proceed"
           THEN /\ sent' = [sent EXCEPT ![c] =
                              Append(@, ContentRequest(args[c].doc_uid,
                                                       args[c].start,
                                                       args[c].max_length,
                                                       args[c].ranges))]
                /\ open' = [open EXCEPT ![c] = Acquire(released, "content")]
                /\ pc' = [pc EXCEPT ![c] = "content_await"]
                /\ UNCHANGED outcome
           ELSE /\ outcome' = [outcome EXCEPT ![c] = v]
                /\ open' = [open EXCEPT ![c] = released]
                /\ pc' = [pc EXCEPT ![c] = Ended(v)]
                /\ UNCHANGED sent
    /\ UNCHANGED <<backend, args>>

\* the content GET resolves: lines 194-221
FetchResume(c) ==
    /\ pc[c] = "content_await"
    /\ LET out == ContentFinish(Resolved(c))
       IN  /\ outcome' = [outcome EXCEPT ![c] = out]
           /\ open' = [open EXCEPT ![c] = ReleaseOnExit(@, "content", out)]
           /\ pc' = [pc EXCEPT ![c] = Ended(out)]
    /\ UNCHANGED <<backend, args, sent>>

\* the protocol layer has taken the result; the slot serves the next call
Complete(c) ==
    /\ pc[c] \in {"returned", "raised"}
    /\ pc' = [pc EXCEPT ![c] = "idle"]
    /\ args' = [args EXCEPT ![c] = NoArgs]
    /\ sent' = [sent EXCEPT ![c] = <<>>]
    /\ outcome' = [outcome EXCEPT ![c] = Pending]
    /\ UNCHANGED <<backend, open>>

(* the arguments the protocol layer passes *)

LimitArgs == {None, Some(-5), Some(0), Some(1), Some(2), Some(1000),
              Some(1001), Some(5000)}
OffsetArgs == {None, Some(-5), Some(0), Some(1), Some(1000)}
UidArgs == {DocId(1), DocId(SmallCatalog), DocId(BigCatalog), "zzz"}
StartArgs == {None, Some(-7), Some(0), Some(120)}
MaxLengthArgs == {None, Some(-3), Some(0), Some(1), Some(500), Some(50000),
                  Some(50001)}
RangesArgs == {None, Some(""), Some("0-120,400-550")}

ConcLimitArgs == {Some(0), Some(2)}
ConcUidArgs == {DocId(1), "zzz"}
ConcStartArgs == {None, Some(120)}
ConcRangesArgs == {None, Some("0-120,400-550")}

\* one invocation at a time, every argument and every backend
Next ==
    \/ \E l \in LimitArgs, o \in OffsetArgs : InvokeList(1, l, o)
    \/ \E u \in UidArgs, s \in StartArgs, m \in MaxLengthArgs, r \in RangesArgs :
          InvokeFetch(1, u, s, m, r)
    \/ ListResume(1)
    \/ FetchValidated(1)
    \/ FetchResume(1)
    \/ Complete(1)

Spec == Init /\ [][Next]_vars

\* MaxCalls invocations interleaved at their await points
ConcNext ==
    \E c \in Calls :
        \/ \E l \in ConcLimitArgs : InvokeList(c, l, None)
        \/ \E u \in ConcUidArgs, s \in ConcStartArgs, r \in ConcRangesArgs :
              InvokeFetch(c, u, s, None, r)
        \/ ListResume(c)
        \/ FetchValidated(c)
        \/ FetchResume(c)
        \/ Complete(c)

ConcSpec == ConcInit /\ [][ConcNext]_vars

(* ------------------------------ claims ------------------------------- *)

Done(c) == pc[c] \in {"returned", "raised"}

\* the JSON value a returned call's text holds
ResultJson(c) == json_loads(outcome[c].value)

HasKey(j, k) == j.t = "object" /\ k \in DOMAIN j.v

\* the backend's answers to the first and to the second GET of call c
Listing(c) == Respond(backend, sent[c][1])
Content(c) == Respond(backend, sent[c][2])

\* a response the code can reshape: 200, decodable, a JSON object
Usable(resp) ==
    ~resp.fault /\ resp.status = 200 /\ resp.decodable /\ resp.data.t = "object"

\* a listing body of the documented shape {"documents": [{...}, ...]}, the
\* key possibly missing
WellFormedListing(resp) ==
    /\ Usable(resp)
    /\ "documents" \in DOMAIN resp.data.v =>
          /\ resp.data.v["documents"].t = "array"
          /\ \A i \in DOMAIN resp.data.v["documents"].v :
                resp.data.v["documents"].v[i].t = "object"

\* the listing holds a document whose id is uid
Lists(resp, uid) ==
    /\ Usable(resp)
    /\ "documents" \in DOMAIN resp.data.v
    /\ resp.data.v["documents"].t = "array"
    /\ \E i \in DOMAIN resp.data.v["documents"].v :
          LET d == resp.data.v["documents"].v[i]
          IN  /\ HasKey(d, "id")
              /\ d.v["id"].t = "str"
              /\ d.v["id"].v = uid

NotFoundText(uid) ==
    json_dumps(JObj([error |-> JStr("Document '" \o uid \o "' not found")]))

\* C1: neither tool ever propagates an exception: every finished call has
\* returned a JSON text, and whenever a GET of the call failed (transport
\* fault, non-200 status, undecodable or non-object body) that text is an
\* object with an "error" key.
C1_NeverRaises ==
    \A c \in Calls :
        Done(c) =>
            /\ outcome[c].kind = "return"
            /\ (\E i \in DOMAIN sent[c] : ~Usable(Respond(backend, sent[c][i])))
                  => HasKey(ResultJson(c), "error")

\* C2: for a validated doc_uid the content request is decided by which of
\* (start, max_length, ranges) are supplied: ranges supplied (any string) =>
\* query ranges=<raw string> alone; ranges absent and start or max_length
\* supplied => exactly start and max_length; all absent => no query.
C2_ModeByPresence ==
    \A c \in Calls :
        (args[c].tool = "fetch" /\ Len(sent[c]) = 2) =>
            LET a == args[c]
                r == sent[c][2]
                base == BASE_FETCH_URL \o "/" \o a.doc_uid
            IN  /\ ~IsNone(a.ranges) =>
                      /\ r.ranges = a.ranges
                      /\ IsNone(r.start) /\ IsNone(r.max_length)
                      /\ r.url = base \o "?ranges=" \o Val(a.ranges)
                /\ (IsNone(a.ranges) /\ (~IsNone(a.start) \/ ~IsNone(a.max_length))) =>
                      /\ IsNone(r.ranges)
                      /\ ~IsNone(r.start) /\ ~IsNone(r.max_length)
                /\ (IsNone(a.ranges) /\ IsNone(a.start) /\ IsNone(a.max_length)) =>
                      /\ IsNone(r.ranges) /\ IsNone(r.start) /\ IsNone(r.max_length)
                      /\ r.url = base

C5_SingleRangeClamp ==
    \A c \in Calls :
        (/\ args[c].tool = "fetch" /\ Len(sent[c]) = 2
         /\ IsNone(args[c].ranges)
         /\ (~IsNone(args[c].start) \/ ~IsNone(args[c].max_length))) =>
            LET s == Max(Default(args[c].start, 0), 0)
                m == Min(Max(Default(args[c].max_length, 10000), 1), 50000)
                r == sent[c][2]
            IN  /\ r.start = <<s>>
                /\ r.max_length = <<m>>
                /\ IsNone(r.ranges)
                /\ 0 <= Val(r.start)
                /\ 1 <= Val(r.max_length) /\ Val(r.max_length) <= 50000
                /\ r.url = BASE_FETCH_URL \o "/" \o args[c].doc_uid
                              \o "?start=" \o ToString(s)
                              \o "&max_length=" \o ToString(m)

\* C5's case: start omitted and defaulted, max_length above the cap
C5_Witness ==
    /\ args[1].tool = "fetch"
    /\ Len(sent[1]) = 2
    /\ IsNone(args[1].ranges)
    /\ IsNone(args[1].start)
    /\ args[1].max_length = <<50001>>
    /\ sent[1][2].max_length = <<50000>>

HttpErrorText(tool, status) ==
    json_dumps(JObj([error |-> JStr(tool \o " failed"), status |-> JInt(status)]))

\* the backend's answer to the GET the tool of call c reports on: the
\* listing for list_all_docs, the content GET for fetch_doc_content
OwnResponse(c) == IF args[c].tool = "list" THEN Listing(c) ELSE Content(c)

\* C6: each operation returns {"error": "<tool> failed", "status": <code>}
\* exactly when the backend answers its GET with a non-2xx status; every 2xx
\* answer with a decodable body is reshaped, not reported as an error.
C6_ErrorIffNon2xx ==
    \A c \in Calls :
        (/\ Done(c)
         /\ \/ args[c].tool = "list"
            \/ args[c].tool = "fetch" /\ Len(sent[c]) = 2
         /\ ~OwnResponse(c).fault) =>
            LET resp == OwnResponse(c)
                name == IF args[c].tool = "list" THEN "list_all_docs"
                        ELSE "fetch_doc_content"
                success == 200 <= resp.status /\ resp.status <= 299
            IN  /\ ~success =>
                      /\ pc[c] = "returned"
                      /\ outcome[c].value = HttpErrorText(name, resp.status)
                /\ (success /\ resp.decodable /\ pc[c] = "returned") =>
                      ~HasKey(ResultJson(c), "error")

\* C7: on a successful content response the result's "document" and "meta"
\* are the backend's sub-objects (an empty object for one the backend left
\* out), "has_more" / "next_start" is a top-level key iff it is a key of
\* meta, with meta's value, and there is no other top-level key.
C7_Reshape ==
    \A c \in Calls :
        (/\ args[c].tool = "fetch" /\ Len(sent[c]) = 2 /\ Done(c)
         /\ Usable(Content(c))
         /\ Get(Content(c).data.v, "meta", EmptyObj).t = "object") =>
            LET data == Content(c).data.v
                meta == IF "meta" \in DOMAIN data THEN data["meta"] ELSE EmptyObj
                document == IF "document" \in DOMAIN data THEN data["document"]
                            ELSE EmptyObj
                surfaced == {"has_more", "next_start"} \cap DOMAIN meta.v
            IN  /\ pc[c] = "returned"
                /\ ResultJson(c).t = "object"
                /\ DOMAIN ResultJson(c).v = {"document", "meta"} \cup surfaced
                /\ ResultJson(c).v["document"] = document
                /\ ResultJson(c).v["meta"] = meta
                /\ \A k \in surfaced : ResultJson(c).v[k] = meta.v[k]

\* C7's case: meta carries next_start and a key that is not surfaced, and no
\* has_more
C7_Witness ==
    /\ args[1].tool = "fetch"
    /\ pc[1] = "returned"
    /\ Len(sent[1]) = 2
    /\ backend.contentMode = "meta_extra"
    /\ DOMAIN ResultJson(1).v = {"document", "meta", "next_start"}

\* C8: validation is against the full catalog: whenever the backend catalog
\* holds a document whose id is doc_uid and the listing request succeeds, the
\* call does not end not-found and goes on to the content endpoint, whatever
\* the size of the catalog.
C8_FullCatalog ==
    \A c \in Calls :
        (/\ args[c].tool = "fetch" /\ Done(c)
         /\ Exists(backend, args[c].doc_uid)
         /\ backend.listMode = "ok") =>
            /\ outcome[c].value # NotFoundText(args[c].doc_uid)
            /\ Len(sent[c]) = 2

\* C9: every client a call opens is released on every exit path, and a call
\* never holds more than one open client: the listing client is released
\* before the content client is opened.
C9_ClientsReleased ==
    \A c \in Calls :
        /\ Cardinality(open[c]) <= 1
        /\ pc[c] \in {"idle", "returned", "raised"} => open[c] = {}
        /\ pc[c] \in {"list_await", "validate_await"} => open[c] = {"list"}
        /\ pc[c] = "content_await" => open[c] = {"content"}

\* C9's case: the content GET raised in flight and the call holds no client
C9_Witness ==
    /\ args[1].tool = "fetch"
    /\ pc[1] = "raised"
    /\ Len(sent[1]) = 2
    /\ Content(1).fault
    /\ open[1] = {}

\* what an invocation with arguments a does when it runs with no other
\* invocation in flight: the requests it issues and what it ends with
Alone(a) ==
    IF a.tool = "list"
    THEN LET req == ListRequest(Default(a.limit, DefaultLimit),
                                Default(a.offset, DefaultOffset))
         IN  [sent |-> <<req>>, outcome |-> ListFinish(Respond(backend, req), req)]
    ELSE LET req1 == ListRequest(ValidateLimit, ValidateOffset)
             v == Validate(ListFinish(Respond(backend, req1), req1), a.doc_uid)
             req2 == ContentRequest(a.doc_uid, a.start, a.max_length, a.ranges)
         IN  IF v.kind = "proceed"
             THEN [sent |-> <<req1, req2>>,
                   outcome |-> ContentFinish(Respond(backend, req2))]
             ELSE [sent |-> <<req1>>, outcome |-> v]

\* C10: against an unchanged backend an invocation is determined by its own
\* arguments alone: under every interleaving it issues the requests and
\* returns the JSON it issues and returns when run alone, and two finished
\* invocations with the same arguments hold the same result.
C10_Independent ==
    /\ \A c \in Calls :
          args[c].tool # "none" =>
              LET alone == Alone(args[c])
              IN  /\ Len(sent[c]) <= Len(alone.sent)
                  /\ sent[c] = SubSeq(alone.sent, 1, Len(sent[c]))
                  /\ Done(c) => /\ sent[c] = alone.sent
                                /\ outcome[c] = alone.outcome
    /\ \A c, d \in Calls :
          (Done(c) /\ Done(d) /\ args[c] = args[d]) => outcome[c] = outcome[d]

\* C10's case: a fetch that has returned its content while another
\* invocation with other arguments is suspended at its own GET
C10_Witness ==
    \E c, d \in Calls :
        /\ c # d
        /\ args[c].tool = "fetch" /\ pc[c] = "returned" /\ Len(sent[c]) = 2
        /\ pc[d] \in {"list_await", "validate_await", "content_await"}
        /\ args[d] # args[c]

====
